---- MODULE Spec2Model ----
(***************************************************************************)
(* A model of app.py: a Flask application with one view, get_data, bound   *)
(* to the rule '/api' for GET, served by app.run(host='0.0.0.0',           *)
(* port=5000) when the module is the program entry point.                  *)
(*                                                                         *)
(* A URL path is the sequence of its segments after the leading '/':       *)
(*   /api = <<"api">>, /api/ = <<"api", "">>,                              *)
(*   /static/x = <<"static", "x">>.                                        *)
(* A response body is a sequence of tokens, so that serialising a mapping  *)
(* and parsing it back are two different computations.                     *)
(***************************************************************************)
EXTENDS Integers, Sequences, FiniteSets, TLC

\* Number of requests that arrive in one run of the server.
MaxRequests == 3

----------------------------------------------------------------------------
(* Requests the clients send                                               *)

Methods == {"GET", "HEAD", "OPTIONS", "POST"}

ApiPath == <<"api">>

Paths == {ApiPath, <<"api", "">>, <<"static", "x">>}

\* Query string, extra headers and body of a request.
Plain == [query |-> "", accept |-> "*/*", body |-> ""]

Extras == {Plain, [query |-> "x=1", accept |-> "text/html", body |-> "data"]}

\* Every method on every path, and GET /api with each query, header and body.
Requests == [method : Methods, path : Paths, extra : {Plain}]
            \cup [method : {"GET"}, path : {ApiPath}, extra : Extras]

\* The traffic of the runs checked for progress: GET /api among requests
\* that are refused, answered without the view, or answered by another view.
LiveRequests ==
    [method : {"GET"}, path : {ApiPath}, extra : Extras]
    \cup [method : {"POST", "OPTIONS"}, path : {ApiPath}, extra : {Plain}]
    \cup [method : {"GET"}, path : {<<"static", "x">>}, extra : {Plain}]

----------------------------------------------------------------------------
(* JSON bodies                                                             *)

Punct(c) == [t |-> "punct", v |-> c]

Str(s) == [t |-> "string", v |-> s]

Newline == [t |-> "ws", v |-> "\n"]

Html(s) == [t |-> "html", v |-> s]

\* json.dumps of a mapping given as the sequence of its (key, value) items,
\* in the compact form Flask's JSON provider writes outside debug mode.
RECURSIVE dumps_items(_)
dumps_items(items) ==
    IF items = <<>> THEN <<>>
    ELSE <<Str(items[1][1]), Punct(":"), Str(items[1][2])>>
         \o (IF Len(items) = 1 THEN <<>> ELSE <<Punct(",")>>)
         \o dumps_items(Tail(items))

dumps(items) == <<Punct("{")>> \o dumps_items(items) \o <<Punct("}")>>

ParseError == [error |-> "invalid json"]

\* The members of a JSON object, parsed from the tokens between the braces:
\* a function from keys to values, or ParseError.
RECURSIVE loads_members(_, _)
loads_members(toks, acc) ==
    IF Len(toks) < 3 THEN ParseError
    ELSE IF ~ (toks[1].t = "string" /\ toks[2] = Punct(":") /\ toks[3].t = "string")
    THEN ParseError
    ELSE LET got == [k \in DOMAIN acc \cup {toks[1].v} |->
                        IF k = toks[1].v THEN toks[3].v ELSE acc[k]]
         IN  IF Len(toks) = 3 THEN got
             ELSE IF toks[4] = Punct(",")
                  THEN loads_members(SubSeq(toks, 5, Len(toks)), got)
                  ELSE ParseError

StripWs(toks) == SelectSeq(toks, LAMBDA x : x.t # "ws")

\* json.loads of a body whose top-level value is an object of strings.
loads(body) ==
    LET toks == StripWs(body)
    IN  IF Len(toks) < 2 THEN ParseError
        ELSE IF toks[1] # Punct("{") \/ toks[Len(toks)] # Punct("}") THEN ParseError
        ELSE IF Len(toks) = 2 THEN <<>>
        ELSE loads_members(SubSeq(toks, 2, Len(toks) - 1), <<>>)

----------------------------------------------------------------------------
(* Responses                                                               *)

NoResponse == [status |-> 0, mimetype |-> "", body |-> <<>>, allow |-> {}]

\* jsonify replaced by returning the serialised text itself, which Flask
\* sends as text/html.
jsonify_as_text(items) ==
    [status |-> 200, mimetype |-> "text/html",
     body |-> dumps(items) \o <<Newline>>, allow |-> {}]

\* flask.jsonify: the serialised mapping and a newline, as application/json.
jsonify(items) ==
    [status |-> 200, mimetype |-> "application/json",
     body |-> dumps(items) \o <<Newline>>, allow |-> {}]

\* get_data with another greeting.
get_data_other_text == jsonify(<< <<"message", "Hello, World!">> >>)

\* The view function bound to '/api'.
get_data == jsonify(<< <<"message", "Hello, Docker!">> >>)

NotFound ==
    [status |-> 404, mimetype |-> "text/html", body |-> <<Html("404 Not Found")>>,
     allow |-> {}]

MethodNotAllowed(valid) ==
    [status |-> 405, mimetype |-> "text/html",
     body |-> <<Html("405 Method Not Allowed")>>, allow |-> valid]

\* Flask's automatic answer to OPTIONS on a rule that provides it.
default_options_response(valid) ==
    [status |-> 200, mimetype |-> "text/html", body |-> <<>>, allow |-> valid]

\* What goes on the wire: the body of a response to HEAD is not sent.
Finalize(method, resp) ==
    IF method = "HEAD" THEN [resp EXCEPT !.body = <<>>] ELSE resp

----------------------------------------------------------------------------
(* Routing                                                                 *)

Lit(s) == [kind |-> "lit", v |-> s]

PathConverter == [kind |-> "path", v |-> "filename"]

\* Flask.add_url_rule: HEAD is added to a rule that takes GET, and OPTIONS is
\* added and answered automatically unless the rule lists it itself.
add_url_rule(rule, endpoint, methods) ==
    [rule |-> rule, endpoint |-> endpoint,
     methods |-> methods \cup (IF "GET" \in methods THEN {"HEAD"} ELSE {})
                         \cup {"OPTIONS"},
     provide_automatic_options |-> "OPTIONS" \notin methods]

\* Flask(__name__): the application starts with the rule of its static folder.
StaticRule == add_url_rule(<<Lit("static"), PathConverter>>, "static", {"GET"})

\* The route registered for POST as well.
ApiRule_with_post == add_url_rule(<<Lit("api")>>, "get_data", {"GET", "POST"})

\* @app.route('/api', methods=['GET'])
ApiRule == add_url_rule(<<Lit("api")>>, "get_data", {"GET"})

\* Matching that lets a rule match every path it is a prefix of.
RECURSIVE RuleMatches_prefix(_, _)
RuleMatches_prefix(rule, path) ==
    IF rule = <<>> THEN TRUE
    ELSE IF path = <<>> THEN FALSE
    ELSE IF rule[1].kind = "lit"
         THEN path[1] = rule[1].v /\ RuleMatches_prefix(Tail(rule), Tail(path))
         ELSE path[1] # ""

\* Whether a rule's pattern matches a path, slashes strict: a literal segment
\* matches itself, the path converter the non-empty rest of the path.
RECURSIVE RuleMatches(_, _)
RuleMatches(rule, path) ==
    IF rule = <<>> THEN path = <<>>
    ELSE IF path = <<>> THEN FALSE
    ELSE IF rule[1].kind = "lit"
         THEN path[1] = rule[1].v /\ RuleMatches(Tail(rule), Tail(path))
         ELSE path[1] # ""

\* MapAdapter.match: the rule for the path and method, else 405 with the
\* methods of the rules that match the path, else 404.
match(map, method, path) ==
    LET onPath == {r \in map : RuleMatches(r.rule, path)}
        hits   == {r \in onPath : method \in r.methods}
    IN  IF hits # {} THEN [kind |-> "rule", rule |-> CHOOSE r \in hits : TRUE]
        ELSE IF onPath # {}
             THEN [kind |-> "405", valid |-> UNION {r.methods : r \in onPath}]
             ELSE [kind |-> "404"]

\* Files of the static folder: the repository has none.
StaticFiles == {}

\* The view function of an endpoint, run for a request.
view_function(endpoint, req) ==
    IF endpoint = "get_data" THEN get_data
    ELSE IF req.path[Len(req.path)] \in StaticFiles
         THEN [status |-> 200, mimetype |-> "application/octet-stream",
               body |-> <<Html(req.path[Len(req.path)])>>, allow |-> {}]
         ELSE NotFound

----------------------------------------------------------------------------
(* State                                                                   *)

VARIABLES
    name,      \* __name__ of the module: "__main__" when run as the program
    phase,     \* "not_listening", "listening" or "exited"
    exitCode,  \* exit status of the process once it has exited, else -1
    binds,     \* number of times the listening socket was bound
    bindError, \* the error the bind raised, "" when none
    sockets,   \* the (host, port) pairs the process listens on
    url_map,   \* app.url_map: the registered rules
    conns      \* the requests received, in order of arrival, with the stage
               \* each is in, its response and whether get_data ran for it

vars == <<name, phase, exitCode, binds, bindError, sockets, url_map, conns>>

Port == 5000

Host == "0.0.0.0"

Ids == 1 .. Len(conns)

\* What the bind of the listening socket can come to.
BindOutcomes == {"", "EADDRINUSE", "EACCES"}

\* The state when the module body has run down to line 9.
Init ==
    /\ name \in {"__main__", "app"}
    /\ phase = "not_listening"
    /\ exitCode = -1
    /\ binds = 0
    /\ bindError = ""
    /\ sockets = {}
    /\ url_map = {StaticRule, ApiRule}
    /\ conns = <<>>

\* app.run in a loop that tries the bind again when it fails.
app_run_retrying ==
    /\ name = "__main__"
    /\ phase = "not_listening"
    /\ binds < 3
    /\ binds' = binds + 1
    /\ \E err \in BindOutcomes :
          /\ bindError' = err
          /\ IF err = ""
             THEN /\ phase' = "listening"
                  /\ sockets' = {[host |-> Host, port |-> Port]}
             ELSE /\ phase' = phase
                  /\ sockets' = sockets
    /\ UNCHANGED <<name, exitCode, url_map, conns>>

\* app.run(host='0.0.0.0', port=5000): bind and listen, or fail to bind,
\* which ends the process with status 1.
app_run ==
    /\ name = "__main__"
    /\ phase = "not_listening"
    /\ binds' = binds + 1
    /\ \E err \in BindOutcomes :
          /\ bindError' = err
          /\ IF err = ""
             THEN /\ phase' = "listening"
                  /\ sockets' = {[host |-> Host, port |-> Port]}
                  /\ exitCode' = exitCode
             ELSE /\ phase' = "exited"
                  /\ sockets' = sockets
                  /\ exitCode' = 1
    /\ UNCHANGED <<name, url_map, conns>>

\* The module imported under another name: line 10 is skipped and the module
\* body ends without a server.
not_main ==
    /\ name # "__main__"
    /\ phase = "not_listening"
    /\ phase' = "exited"
    /\ exitCode' = 0
    /\ UNCHANGED <<name, binds, bindError, sockets, url_map, conns>>

\* A request arrives at the listening socket and gets a thread of its own.
Receive(req) ==
    /\ phase = "listening"
    /\ Len(conns) < MaxRequests
    /\ conns' = Append(conns, [req |-> req, pc |-> "received",
                               resp |-> NoResponse, ran |-> FALSE])
    /\ UNCHANGED <<name, phase, exitCode, binds, bindError, sockets, url_map>>

Respond(i, resp, ran) ==
    conns' = [conns EXCEPT ![i].pc = "done",
                           ![i].resp = Finalize(conns[i].req.method, resp),
                           ![i].ran = ran]

\* Routing of request i: an error response, the automatic OPTIONS response,
\* or on to the view function of the matched rule.
Dispatch(i) ==
    /\ phase = "listening"
    /\ i \in Ids
    /\ conns[i].pc = "received"
    /\ LET req == conns[i].req
           m   == match(url_map, req.method, req.path)
       IN  CASE m.kind = "404" -> Respond(i, NotFound, FALSE)
             [] m.kind = "405" -> Respond(i, MethodNotAllowed(m.valid), FALSE)
             [] m.kind = "rule" ->
                  IF m.rule.provide_automatic_options /\ req.method = "OPTIONS"
                  THEN Respond(i, default_options_response(m.rule.methods), FALSE)
                  ELSE conns' = [conns EXCEPT ![i].pc = "view"]
    /\ UNCHANGED <<name, phase, exitCode, binds, bindError, sockets, url_map>>

\* A view that counts the requests answered so far into its greeting.
View_counting(i) ==
    /\ phase = "listening"
    /\ i \in Ids
    /\ conns[i].pc = "view"
    /\ LET req == conns[i].req
           m   == match(url_map, req.method, req.path)
           n   == Cardinality({j \in Ids : conns[j].pc = "done"})
       IN  Respond(i, IF m.rule.endpoint = "get_data" /\ n > 0
                      THEN jsonify(<< <<"message", "Hello again, Docker!">> >>)
                      ELSE view_function(m.rule.endpoint, req),
                   m.rule.endpoint = "get_data")
    /\ UNCHANGED <<name, phase, exitCode, binds, bindError, sockets, url_map>>

\* A view that registers a rule of its own when it runs.
View_registering(i) ==
    /\ phase = "listening"
    /\ i \in Ids
    /\ conns[i].pc = "view"
    /\ LET req == conns[i].req
           m   == match(url_map, req.method, req.path)
       IN  /\ Respond(i, view_function(m.rule.endpoint, req),
                      m.rule.endpoint = "get_data")
           /\ url_map' = url_map \cup
                  {add_url_rule(<<Lit("seen")>>, m.rule.endpoint, {"GET"})}
    /\ UNCHANGED <<name, phase, exitCode, binds, bindError, sockets>>

\* A view that reads the request body to its end before it answers, and so
\* waits for ever on a request that carries one.
View_reading_body(i) ==
    /\ phase = "listening"
    /\ i \in Ids
    /\ conns[i].pc = "view"
    /\ conns[i].req.extra.body = ""
    /\ LET req == conns[i].req
           m   == match(url_map, req.method, req.path)
       IN  Respond(i, view_function(m.rule.endpoint, req),
                   m.rule.endpoint = "get_data")
    /\ UNCHANGED <<name, phase, exitCode, binds, bindError, sockets, url_map>>

\* A view that holds a lock: it waits while an earlier request is in its view.
View_locked(i) ==
    /\ phase = "listening"
    /\ i \in Ids
    /\ conns[i].pc = "view"
    /\ \A j \in 1 .. (i - 1) : conns[j].pc # "view"
    /\ LET req == conns[i].req
           m   == match(url_map, req.method, req.path)
       IN  Respond(i, view_function(m.rule.endpoint, req),
                   m.rule.endpoint = "get_data")
    /\ UNCHANGED <<name, phase, exitCode, binds, bindError, sockets, url_map>>

\* The view function of request i runs and its return value is sent.
View(i) ==
    /\ phase = "listening"
    /\ i \in Ids
    /\ conns[i].pc = "view"
    /\ LET req == conns[i].req
           m   == match(url_map, req.method, req.path)
       IN  Respond(i, view_function(m.rule.endpoint, req),
                   m.rule.endpoint = "get_data")
    /\ UNCHANGED <<name, phase, exitCode, binds, bindError, sockets, url_map>>

\* An interrupt that closes the socket and leaves the process running.
Shutdown_keeps_running ==
    /\ phase = "listening"
    /\ binds < 3
    /\ phase' = "not_listening"
    /\ sockets' = {}
    /\ UNCHANGED <<name, exitCode, binds, bindError, url_map, conns>>

\* The server is interrupted: serve_forever returns, app.run returns and the
\* process ends with status 0; requests still in their threads get no answer.
Shutdown ==
    /\ phase = "listening"
    /\ phase' = "exited"
    /\ exitCode' = 0
    /\ sockets' = {}
    /\ UNCHANGED <<name, binds, bindError, url_map, conns>>

Next ==
    \/ app_run
    \/ not_main
    \/ \E req \in Requests : Receive(req)
    \/ \E i \in 1 .. MaxRequests : Dispatch(i)
    \/ \E i \in 1 .. MaxRequests : View(i)
    \/ Shutdown

Spec == Init /\ [][Next]_vars

LiveNext ==
    \/ app_run
    \/ not_main
    \/ \E req \in LiveRequests : Receive(req)
    \/ \E i \in 1 .. MaxRequests : Dispatch(i)
    \/ \E i \in 1 .. MaxRequests : View(i)
    \/ Shutdown

\* The server's threads run: a request in a thread is routed and its view
\* runs as long as the process lives. Nothing obliges a client to send a
\* request or the process to be interrupted.
LiveSpec ==
    /\ Init
    /\ [][LiveNext]_vars
    /\ WF_vars(app_run)
    /\ \A i \in 1 .. MaxRequests : WF_vars(Dispatch(i)) /\ WF_vars(View(i))

----------------------------------------------------------------------------
(* Properties                                                              *)

Payload == "message" :> "Hello, Docker!"

Done(i) == i \in Ids /\ conns[i].pc = "done"

InFlight(i) == i \in Ids /\ conns[i].pc # "done"

IsGetApi(i) == i \in Ids /\ conns[i].req.method = "GET" /\ conns[i].req.path = ApiPath

\* C1: every answered GET /api, whatever its query, headers and body, has
\* status 200 and a body that parses as JSON to {"message": "Hello, Docker!"}.
C1_GetApiOk ==
    \A i \in Ids :
        Done(i) /\ IsGetApi(i) =>
            conns[i].resp.status = 200 /\ loads(conns[i].resp.body) = Payload

\* A GET /api with a query string, an Accept header and a body was answered.
C1_Witness ==
    \E i \in Ids : Done(i) /\ IsGetApi(i) /\ conns[i].req.extra # Plain

\* C2: any two answered GET /api requests of one run have the same status and
\* the same body, whatever was handled before and between them.
C2_StableResponse ==
    \A i, j \in Ids :
        Done(i) /\ Done(j) /\ IsGetApi(i) /\ IsGetApi(j) =>
            /\ conns[i].resp.status = conns[j].resp.status
            /\ conns[i].resp.body = conns[j].resp.body

\* Two GET /api were answered, and a request that is not GET /api arrived
\* between them and was answered too.
C2_Witness ==
    \E i, j, k \in Ids :
        /\ i < j /\ j < k
        /\ Done(i) /\ Done(j) /\ Done(k)
        /\ IsGetApi(i) /\ ~ IsGetApi(j) /\ IsGetApi(k)

\* C3: every answered GET /api carries the content type application/json.
C3_JsonContentType ==
    \A i \in Ids :
        Done(i) /\ IsGetApi(i) => conns[i].resp.mimetype = "application/json"

\* A GET /api was answered by the view.
C3_Witness ==
    \E i \in Ids : Done(i) /\ IsGetApi(i) /\ conns[i].ran

OnApiNotGet(i) ==
    i \in Ids /\ conns[i].req.path = ApiPath /\ conns[i].req.method # "GET"

\* C4 as stated: every request to /api with a method other than GET gets a
\* status other than 200 and not the success payload, and get_data does not
\* run for it.
C4_Original ==
    \A i \in Ids :
        Done(i) /\ OnApiNotGet(i) =>
            /\ conns[i].resp.status # 200
            /\ loads(conns[i].resp.body) # Payload
            /\ ~ conns[i].ran

\* C4 amended: a request to /api with a method other than GET never gets the
\* success payload as its body. HEAD runs get_data and gets 200 with no body;
\* OPTIONS gets the automatic 200 with no body and get_data does not run;
\* every other method gets 405 and get_data does not run.
C4_NonGetOnApi ==
    \A i \in Ids :
        Done(i) /\ OnApiNotGet(i) =>
            /\ loads(conns[i].resp.body) # Payload
            /\ conns[i].req.method = "HEAD" =>
                  conns[i].resp.status = 200 /\ conns[i].resp.body = <<>>
                  /\ conns[i].ran
            /\ conns[i].req.method = "OPTIONS" =>
                  conns[i].resp.status = 200 /\ conns[i].resp.body = <<>>
                  /\ ~ conns[i].ran
            /\ conns[i].req.method \notin {"HEAD", "OPTIONS"} =>
                  conns[i].resp.status = 405 /\ ~ conns[i].ran

\* A POST to /api was answered.
C4_Witness ==
    \E i \in Ids : Done(i) /\ OnApiNotGet(i) /\ conns[i].req.method = "POST"

\* C5 as stated: every request to a path other than /api falls to the
\* not-found response and never gets the success payload.
C5_Original ==
    \A i \in Ids :
        Done(i) /\ conns[i].req.path # ApiPath =>
            /\ conns[i].resp.status = 404
            /\ loads(conns[i].resp.body) # Payload

\* C5 amended: a request to a path other than /api never gets the success
\* payload and get_data does not run for it. It gets 404, except on a file
\* path under /static/, which the rule of the static folder matches: there
\* OPTIONS gets the automatic 200 with no body, and a method other than GET,
\* HEAD and OPTIONS gets 405.
UnderStatic(path) == Len(path) >= 2 /\ path[1] = "static" /\ path[2] # ""

C5_OtherPaths ==
    \A i \in Ids :
        Done(i) /\ conns[i].req.path # ApiPath =>
            /\ loads(conns[i].resp.body) # Payload
            /\ ~ conns[i].ran
            /\ conns[i].resp.status =
                  IF ~ UnderStatic(conns[i].req.path) THEN 404
                  ELSE IF conns[i].req.method = "OPTIONS" THEN 200
                  ELSE IF conns[i].req.method \in {"GET", "HEAD"} THEN 404
                  ELSE 405
            /\ conns[i].resp.status = 200 => conns[i].resp.body = <<>>

\* A GET to /api/ (with the trailing slash) was answered.
C5_Witness ==
    \E i \in Ids :
        Done(i) /\ conns[i].req.path = <<"api", "">> /\ conns[i].req.method = "GET"

\* C6: once the bind has failed the process has exited with a non-zero
\* status, it listens on nothing, no request was received or answered, and
\* the bind was attempted once.
C6_BindFailureFatal ==
    bindError # "" =>
        /\ phase = "exited"
        /\ exitCode \notin {0, -1}
        /\ sockets = {}
        /\ conns = <<>>
        /\ binds = 1

\* The bind failed because the port was in use.
C6_Witness == bindError = "EADDRINUSE" /\ phase = "exited"

ListensOnWildcard ==
    [](phase = "listening" => sockets = {[host |-> "0.0.0.0", port |-> 5000]})

\* C7 as stated: the process listens on 0.0.0.0:5000 only, and every GET /api
\* that arrives is eventually answered.
C7_Original ==
    /\ ListensOnWildcard
    /\ \A i \in 1 .. MaxRequests : (InFlight(i) /\ IsGetApi(i)) ~> Done(i)

\* C7 amended: the process listens on 0.0.0.0:5000 only, and every GET /api
\* that arrives is eventually answered unless the process exits first.
C7_ListensAndAnswers ==
    /\ ListensOnWildcard
    /\ \A i \in 1 .. MaxRequests :
          (InFlight(i) /\ IsGetApi(i)) ~> (Done(i) \/ phase = "exited")

\* The server listens on 0.0.0.0:5000 and has answered a GET /api.
C7_Witness ==
    /\ phase = "listening"
    /\ sockets = {[host |-> "0.0.0.0", port |-> 5000]}
    /\ \E i \in Ids : Done(i) /\ IsGetApi(i)

Answered == {i \in Ids : conns[i].pc = "done"}

\* C8: the server starts not listening; it starts to listen in one step, the
\* first bind; it stops listening only by the process exiting; nothing brings
\* an exited process back; and a response is produced only while listening.
C8_TwoStates ==
    /\ phase = "not_listening"
    /\ [](phase \in {"not_listening", "listening", "exited"})
    /\ [][/\ (phase # "listening" /\ phase' = "listening") =>
                phase = "not_listening" /\ binds = 0 /\ binds' = 1
          /\ (phase = "listening" /\ phase' # "listening") => phase' = "exited"
          /\ phase = "exited" => phase' = "exited"
          /\ Answered' # Answered => phase = "listening" /\ phase' = "listening"
         ]_vars

\* The server listened, answered a request and then exited with status 0.
C8_Witness ==
    phase = "exited" /\ exitCode = 0 /\ binds = 1 /\ \E i \in Ids : Done(i)

\* C9: a step in which get_data runs for a request leaves the rules, the
\* listening state, the sockets and every other request as they were.
C9_HandlerFrame ==
    [][\A i \in Ids :
          (~ conns[i].ran /\ conns'[i].ran) =>
              /\ url_map' = url_map
              /\ phase' = phase
              /\ sockets' = sockets
              /\ Len(conns') = Len(conns)
              /\ \A j \in Ids \ {i} : conns'[j] = conns[j]
      ]_vars

\* get_data has run while another request was in flight.
C9_Witness ==
    \E i, j \in Ids : conns[i].ran /\ InFlight(j) /\ phase = "listening"

\* C10: while the server listens every request in flight can take its next
\* step whatever stage the other requests are in, and a GET /api answered
\* among them has the response get_data returns.
C10_NoInterference ==
    \A i \in Ids :
        /\ (phase = "listening" /\ conns[i].pc = "received") => ENABLED Dispatch(i)
        /\ (phase = "listening" /\ conns[i].pc = "view") => ENABLED View(i)
        /\ Done(i) /\ IsGetApi(i) => conns[i].resp = get_data

\* Two GET /api were in their views at once and the later one was answered
\* first.
C10_Witness ==
    \E i, j \in Ids :
        /\ i < j
        /\ IsGetApi(i) /\ IsGetApi(j)
        /\ conns[i].pc = "view"
        /\ Done(j) /\ conns[j].ran

====
